---- MODULE Spec2Model ----
(***************************************************************************)
(* The Animation engine of animate.js (src/src/index.ts, class Animation)  *)
(* as a state machine.  One instance, its injected clock and its injected  *)
(* scheduler are modelled; every public method and the scheduler running a *)
(* submitted handler callback is one action.                               *)
(*                                                                         *)
(* Numbers.  The program computes with IEEE doubles.  The model uses two   *)
(* fixed-point grids on which every operation it performs is exact:        *)
(*   - clock readings are integers, Second of them to one second;          *)
(*   - progress values are integers, One of them to 1.0.                   *)
(* A state value (from + (to - from) * stateProgress) is kept on the       *)
(* progress grid as well, i.e. multiplied by One.                          *)
(***************************************************************************)
EXTENDS Integers, Sequences, FiniteSets, TLC

\* ---------------------------------------------------------------- bounds
\* Largest clock reading of a run (the clock stops advancing there).
MaxTime == 4
\* Largest advance of the clock between two consecutive readings inside one
\* operation (a callback taking time, the host being slow).
MaxStep == 1
\* Largest number of handler callbacks the scheduler holds at once.
MaxScheduled == 2
\* Largest number of awaitables handed out by promise().
MaxPromises == 2
\* Largest number of onUpdate calls a recording onUpdate keeps.
MaxUpdates == 4
\* Largest number of times a timing function is asked for one input.
MaxAsked == 2

\* ---------------------------------------------------------------- grids
\* null of `number|null`
Null == -1000
\* 1.0 on the progress grid
One == 4
\* one second on the clock grid
Second == 2
\* NaN, the quotient 0 / 0 of two numbers
NaN == -2000
\* Infinity, the quotient of a positive number and 0; it is larger than
\* every number of the grids
Infinity == 3000

\* ---------------------------------------------------------------- numbers
\* The numbers of the program are IEEE-754 doubles.  Where from, to and the
\* progress values are on the grids above, every operation is exact and the
\* model computes with integers.  Where they are not (from = 0.2), the model
\* computes with the doubles themselves: a finite double is
\* (-1)^neg * man * 2^exp, man a natural number of at most Precision bits.
\* man is kept as the sequence of its bits, lowest first and without high
\* zeros, as it exceeds the integers of the checker.

\* Bits of the significand of a double
Precision == 53

\* Additions and subtractions are carried out on limbs of LimbBits bits.
LimbBits == 15

Base == 2^LimbBits

\* The largest and the smallest number of a non-empty set of integers.
Largest(S) == CHOOSE x \in S : \A y \in S : y <= x

Smallest(S) == CHOOSE x \in S : \A y \in S : x <= y

\* The natural number n < 2^30 as bits.
NatBits(n) ==
    IF n = 0 THEN <<>>
    ELSE LET k == Smallest({j \in 1..30 : n < 2^j})
         IN [i \in 1..k |-> (n \div 2^(i - 1)) % 2]

\* b without its high zeros
TrimBits(b) ==
    LET ones == {i \in DOMAIN b : b[i] = 1}
    IN IF ones = {} THEN <<>> ELSE SubSeq(b, 1, Largest(ones))

\* The number the bits b[i..j] denote, b[i] the lowest.
RECURSIVE BitsValue(_, _, _)
BitsValue(b, i, j) ==
    IF i > j \/ i > Len(b) THEN 0 ELSE b[i] + 2 * BitsValue(b, i + 1, j)

\* The limbs of the bits b, lowest first, and the bits of the limbs l
Limbs(b) ==
    [k \in 1..((Len(b) + LimbBits - 1) \div LimbBits) |->
        BitsValue(b, LimbBits * (k - 1) + 1, LimbBits * k)]

LimbsBits(l) ==
    TrimBits([i \in 1..(LimbBits * Len(l)) |->
                (l[(i - 1) \div LimbBits + 1] \div 2^((i - 1) % LimbBits)) % 2])

\* x + y + carry on limbs
RECURSIVE AddLimbs(_, _, _)
AddLimbs(x, y, carry) ==
    IF x = <<>> /\ y = <<>> THEN (IF carry = 1 THEN <<1>> ELSE <<>>)
    ELSE LET sum == (IF x = <<>> THEN 0 ELSE Head(x))
                    + (IF y = <<>> THEN 0 ELSE Head(y)) + carry
         IN <<sum % Base>> \o AddLimbs(IF x = <<>> THEN <<>> ELSE Tail(x),
                                       IF y = <<>> THEN <<>> ELSE Tail(y),
                                       sum \div Base)

\* x - y - borrow on limbs, for x >= y + borrow
RECURSIVE SubLimbs(_, _, _)
SubLimbs(x, y, borrow) ==
    IF x = <<>> THEN <<>>
    ELSE LET diff == Head(x) - (IF y = <<>> THEN 0 ELSE Head(y)) - borrow
         IN <<diff % Base>> \o SubLimbs(Tail(x),
                                        IF y = <<>> THEN <<>> ELSE Tail(y),
                                        IF diff < 0 THEN 1 ELSE 0)

\* a + b + carry
AddBits(a, b, carry) == LimbsBits(AddLimbs(Limbs(a), Limbs(b), carry))

\* a - b - borrow, for a >= b + borrow
SubBits(a, b, borrow) == LimbsBits(SubLimbs(Limbs(a), Limbs(b), borrow))

\* a < b, for a and b without high zeros
LessBits(a, b) ==
    IF Len(a) # Len(b) THEN Len(a) < Len(b)
    ELSE LET differ == {i \in DOMAIN a : a[i] # b[i]}
         IN differ # {} /\ a[Largest(differ)] < b[Largest(differ)]

\* a * 2^k
ShiftBits(a, k) ==
    IF a = <<>> THEN <<>> ELSE [i \in 1..k |-> 0] \o a

\* a * b, by the bits of the shorter factor
RECURSIVE MulBits(_, _)
MulBits(a, b) ==
    IF b = <<>> \/ a = <<>> THEN <<>>
    ELSE IF Len(a) < Len(b) THEN MulBits(b, a)
    ELSE LET rest == ShiftBits(MulBits(a, Tail(b)), 1)
         IN IF Head(b) = 1 THEN AddBits(a, rest, 0) ELSE rest

\* The double (-1)^neg * man * 2^exp with man odd, or zero: one record for
\* one value (-0 is not told from 0).
Normal(neg, man, exp) ==
    IF man = <<>> THEN [neg |-> FALSE, man |-> <<>>, exp |-> 0]
    ELSE LET low == Smallest({i \in DOMAIN man : man[i] = 1})
         IN [neg |-> neg, man |-> SubSeq(man, low, Len(man)), exp |-> exp + low - 1]

\* The double nearest to the exact value x, ties to the even significand
\* (the rounding of every operation on doubles; exponents stay in range).
Round(x) ==
    LET d == Len(x.man) - Precision
    IN IF d <= 0 THEN x
       ELSE LET kept == SubSeq(x.man, d + 1, Len(x.man))
                rest == \E i \in 1..(d - 1) : x.man[i] = 1
                up == x.man[d] = 1 /\ (rest \/ kept[1] = 1)
            IN Normal(x.neg,
                      IF up THEN AddBits(kept, <<1>>, 0) ELSE kept,
                      x.exp + d)

\* x + y, exact
ExactSum(x, y) ==
    LET e == IF x.exp < y.exp THEN x.exp ELSE y.exp
        a == ShiftBits(x.man, x.exp - e)
        b == ShiftBits(y.man, y.exp - e)
    IN IF x.man = <<>> THEN y
       ELSE IF y.man = <<>> THEN x
       ELSE IF x.neg = y.neg THEN Normal(x.neg, AddBits(a, b, 0), e)
       ELSE IF LessBits(a, b) THEN Normal(y.neg, SubBits(b, a, 0), e)
       ELSE Normal(x.neg, SubBits(a, b, 0), e)

\* x * y, exact
ExactProduct(x, y) ==
    Normal(x.neg # y.neg, MulBits(x.man, y.man), x.exp + y.exp)

\* -x
Negated(x) == Normal(~x.neg, x.man, x.exp)

\* The operators +, - and * of two doubles
DoubleAdd(x, y) == Round(ExactSum(x, y))

DoubleSub(x, y) == Round(ExactSum(x, Negated(y)))

DoubleMul(x, y) == Round(ExactProduct(x, y))

\* Bits kept below the quotient when a literal is divided out
GuardBits == 64

\* Quotient and remainder of the limbs l by the small number den
RECURSIVE DivLimbs(_, _)
DivLimbs(l, den) ==
    IF l = <<>> THEN [q |-> <<>>, r |-> 0]
    ELSE LET high == DivLimbs(Tail(l), den)
             cur == Base * high.r + Head(l)
         IN [q |-> <<cur \div den>> \o high.q, r |-> cur % den]

\* The double a literal num/den (0.2 is 2/10) denotes: the double nearest
\* to it.  A remainder of the division is kept as one more low bit.
DoubleOf(num, den) ==
    LET abs == IF num < 0 THEN -num ELSE num
        d == DivLimbs(Limbs(ShiftBits(NatBits(abs), GuardBits)), den)
        q == LimbsBits(d.q)
    IN IF d.r = 0 THEN Round(Normal(num < 0, q, -GuardBits))
       ELSE Round(Normal(num < 0, <<1>> \o q, -GuardBits - 1))

\* Quotient and remainder of n by d, for n < d * 2^k, bit by bit from the
\* highest bit of the quotient
RECURSIVE DivBits(_, _, _)
DivBits(n, d, k) ==
    IF k = 0 THEN [q |-> <<>>, r |-> n]
    ELSE LET shifted == ShiftBits(d, k - 1)
         IN IF LessBits(n, shifted)
            THEN LET low == DivBits(n, d, k - 1)
                 IN [q |-> low.q \o <<0>>, r |-> low.r]
            ELSE LET low == DivBits(SubBits(n, shifted, 0), d, k - 1)
                 IN [q |-> low.q \o <<1>>, r |-> low.r]

\* Bits of the quotient of two significands: two more than Precision at
\* least, worked out in four runs of DivBits
QuotientBits == Precision + 3

\* Quotient and remainder of n by d, for n < d * 2^QuotientBits
Quotient(n, d) ==
    LET run == QuotientBits \div 4
        q1 == DivBits(n, ShiftBits(d, 3 * run), run)
        q2 == DivBits(q1.r, ShiftBits(d, 2 * run), run)
        q3 == DivBits(q2.r, ShiftBits(d, run), run)
        q4 == DivBits(q3.r, d, run)
    IN [q |-> q4.q \o q3.q \o q2.q \o q1.q, r |-> q4.r]

\* The operator / of two doubles, y not zero: the quotient of the
\* significands to Precision + 2 bits at least, a remainder kept as one more
\* low bit, then rounded.
DoubleDiv(x, y) ==
    IF x.man = <<>> THEN x
    ELSE LET shift == Len(y.man) - Len(x.man) + Precision + 2
             d == Quotient(ShiftBits(x.man, shift), y.man)
             q == TrimBits(d.q)
         IN IF d.r = <<>>
            THEN Round(Normal(x.neg # y.neg, q, x.exp - y.exp - shift))
            ELSE Round(Normal(x.neg # y.neg, <<1>> \o q, x.exp - y.exp - shift - 1))

\* x < y of two doubles
DoubleLess(x, y) == ExactSum(x, Negated(y)).neg

\* Math.abs(x)
DoubleAbs(x) == [x EXCEPT !.neg = FALSE]

\* ---------------------------------------------------------------- state
VARIABLES
    config,               \* this.config: the snapshot taken by the constructor
    clock,                \* last reading returned by relativeTimeSeconds
    startTime,            \* this.startTime
    pauseTime,            \* this.pauseTime
    resumeTime,           \* this.resumeTime
    endTime,              \* this.endTime
    cancelTime,           \* this.cancelTime
    timeProgress,         \* this.timeProgress
    lastHandlerCallTime,  \* this.lastHandlerCallTime
    scheduled,            \* callbacks submitted to enqueue and not yet run
    promises,             \* state of every awaitable promise() or animatePromise() returned
    invoked,              \* how often the configured onStart/onEnd/onCancel ran
    lastRenderTime,       \* the clock reading current when onUpdate last ran
    calls,                \* callbacks invoked by the last operation, in order
    thrown,               \* the last operation ended by a callback throwing
    queries,              \* readings a scripted clock has returned so far
    updates,              \* the states a recording onUpdate has received
    closure,              \* captured variables of the timing function applied
    runTime,              \* clock time of the run segments that pause() closed
    runSince              \* reading at which the open run segment began

vars == <<config, clock, startTime, pauseTime, resumeTime, endTime, cancelTime,
          timeProgress, lastHandlerCallTime, scheduled, promises, invoked,
          lastRenderTime, calls, thrown, queries, updates, closure,
          runTime, runSince>>

\* ---------------------------------------------------------------- config
\* The optional callbacks of AnimationConfig (onUpdate is required).
OptionalCallbacks == {"onStart", "onPause", "onResume", "onEnd", "onCancel"}

\* The timing functions a configuration may name; "none" is an absent
\* config.timingFunction.
TimingFunctions == {"none", "allOrNothing", "fixed"}

\* AnimationConfig values of the model.  maxFps = 0 is an absent maxFps (the
\* code tests its truthiness); throws names the callback that throws when it
\* is invoked, "none" when every callback returns.  relativeTimeSeconds is
\* the injected clock: "host" for a monotonic clock of the host, "script" for
\* a stub that returns the readings of Script one after the other.  record
\* says that the configured onUpdate keeps the states it receives.  from and
\* to are given in units of 1/unit: integers when unit is 1, the literals
\* 0.2 and 0.9 when unit is 10 and they are 2 and 9.
DefaultConfig ==
    [from |-> 0, to |-> 2, unit |-> 1, durationSeconds |-> 1, progress |-> 0,
     timingFunction |-> "none", maxFps |-> 0,
     callbacks |-> OptionalCallbacks, throws |-> "none",
     relativeTimeSeconds |-> "host", record |-> FALSE]

\* The configurations of Spec: with and without the optional callbacks.
Configs ==
    {DefaultConfig, [DefaultConfig EXCEPT !.callbacks = {}]}

\* The configurations of LifecycleSpec: the default one and those that differ
\* from it in one field, and a throttled animation of two seconds.
LifecycleConfigs ==
    {DefaultConfig,
     [DefaultConfig EXCEPT !.progress = One \div 2],
     [DefaultConfig EXCEPT !.callbacks = {}],
     [DefaultConfig EXCEPT !.maxFps = 1],
     [DefaultConfig EXCEPT !.maxFps = 1, !.durationSeconds = 2]}
  \cup {[DefaultConfig EXCEPT !.timingFunction = f] : f \in TimingFunctions}

\* The configurations of ThrowSpec: one of the six callbacks throws.
ThrowConfigs ==
    {[DefaultConfig EXCEPT !.throws = n] : n \in OptionalCallbacks \cup {"onUpdate"}}

\* The configurations of LiveSpec: without and with maxFps.
LiveConfigs ==
    {DefaultConfig, [DefaultConfig EXCEPT !.maxFps = 1]}

\* The configuration of the scenario from 0 to 100 in one second with the
\* linear timing function, an onEnd and a recording onUpdate.
ScenarioConfig ==
    [DefaultConfig EXCEPT !.to = 100, !.timingFunction = "linear",
                          !.callbacks = {"onEnd"}, !.record = TRUE]

\* The configurations of ScenarioSpec: the scenario on the scripted clock, and
\* on the host's clock without and with the other callbacks.
ScenarioConfigs ==
    {[ScenarioConfig EXCEPT !.relativeTimeSeconds = "script"],
     ScenarioConfig,
     [ScenarioConfig EXCEPT !.callbacks = OptionalCallbacks]}

\* The configurations of RenderSpec: a starting progress below 0.0 and one
\* above 1.0, without and with a timing function, and values to below from
\* and from below zero.
RenderConfigs ==
    {[DefaultConfig EXCEPT !.progress = -(One \div 2)],
     [DefaultConfig EXCEPT !.progress = One + One \div 2],
     [DefaultConfig EXCEPT !.progress = -(One \div 2), !.timingFunction = "allOrNothing"],
     [DefaultConfig EXCEPT !.from = 2, !.to = 0],
     [DefaultConfig EXCEPT !.from = -1, !.to = 1, !.timingFunction = "linear"]}

\* The configurations of InstantSpec: durationSeconds is 0 or negative.
InstantConfigs ==
    {[DefaultConfig EXCEPT !.durationSeconds = d, !.callbacks = c] :
        d \in {0, -1}, c \in {OptionalCallbacks, {}}}

\* The configurations of DecimalSpec: from and to are tenths (0.2 and 0.9,
\* 0.9 and 0.2, ...), which are no dyadic fractions.
DecimalConfigs ==
    {[DefaultConfig EXCEPT !.unit = 10, !.from = p[1], !.to = p[2]] :
        p \in {<<2, 9>>, <<9, 2>>, <<4, 1>>, <<1, 3>>, <<0, 10>>, <<5, 15>>}}

\* ---------------------------------------------------------------- timing functions
linear(progress) == progress

allOrNothing(threshold, progress) ==
    IF progress # NaN /\ progress >= threshold THEN One ELSE 0

fixed(value, progress) == value

\* config.timingFunction(timeProgress) for a configured timing function
timingFunction(name, progress) ==
    CASE name = "linear" -> linear(progress)
      [] name = "allOrNothing" -> allOrNothing(One \div 2, progress)
      [] name = "fixed" -> fixed(One \div 4, progress)

\* cubicBezier that takes x2 itself for the second strength
cubicBezier_SameStrength(x1, y1, x2, y2, progress) ==
    LET one == DoubleOf(1, 1)
        progress1 == DoubleSub(one, progress)
        power1 == DoubleMul(progress1, progress1)
        power2 == DoubleMul(progress, progress)
        shift1 == DoubleMul(DoubleSub(y1, progress), DoubleMul(x1, power1))
        shift2 == DoubleMul(DoubleSub(y2, progress), DoubleMul(x2, power2))
    IN DoubleAdd(DoubleAdd(progress, shift1), shift2)

\* cubicBezier(x1, y1, x2, y2)(progress) of doubles.  The squares
\* progress1 ** 2 and progress2 ** 2 are those of numbers of the progress
\* grid and exact.
cubicBezier(x1, y1, x2, y2, progress) ==
    LET one == DoubleOf(1, 1)
        strength1 == x1
        strength2 == DoubleSub(one, x2)
        targetDelta1 == DoubleSub(y1, progress)
        targetDelta2 == DoubleSub(y2, progress)
        progress1 == DoubleSub(one, progress)
        progress2 == progress
        power1 == DoubleMul(progress1, progress1)
        power2 == DoubleMul(progress2, progress2)
        shift1 == DoubleMul(targetDelta1, DoubleMul(strength1, power1))
        shift2 == DoubleMul(targetDelta2, DoubleMul(strength2, power2))
    IN DoubleAdd(DoubleAdd(progress, shift1), shift2)

\* easeInOut(strength)(progress) of doubles
easeInOut(strength, progress) ==
    cubicBezier(strength, DoubleOf(0, 1), DoubleSub(DoubleOf(1, 1), strength),
                DoubleOf(1, 1), progress)

\* The values Math.random() returns, on the progress grid: within [0, 1).
MathRandom == 0..(One - 1)

\* The inputs the timing functions are applied to.
Progresses == 0..One

\* The strengths of easeInOut, in units of 1/StrengthUnit: 0.0, 0.05, ...,
\* 1.0; 0.5 is the default.
StrengthUnit == 20

Strengths == 0..StrengthUnit

\* No timing function with captured variables is being applied.
NoClosure == [kind |-> "none"]

\* A timing function as it is returned by easeInOut(strength), random(),
\* cached(f) or gravitate(orbitor, gravitator): cache is the Map that cached
\* captures, from the inputs it has stored to their results; orbitor,
\* gravitator and section (currentSectionDeltaInfo) are what gravitate
\* captures.  progress and result are the last input and the value returned
\* for it, pull the deltaStateRelative gravitate computed for it; asked counts
\* the calls per input, evaluations the calls of the wrapped function per
\* input, and returned keeps the value last returned for every input asked.
NewClosure(kind, strength, wrapped) ==
    [kind |-> kind, strength |-> strength, wrapped |-> wrapped,
     cache |-> <<>>, progress |-> Null, result |-> Null,
     asked |-> [q \in Progresses |-> 0],
     evaluations |-> [q \in Progresses |-> 0],
     returned |-> <<>>,
     orbitor |-> "none", gravitator |-> "none", section |-> Null, pull |-> Null]

\* map.set(key, value)
MapSet(map, key, value) ==
    [k \in DOMAIN map \cup {key} |-> IF k = key THEN value ELSE map[k]]

\* The results the function wrapped by cached can return for progress:
\* Math.random() for random(), f(progress) for cached(f).
wrappedResults(c, progress) ==
    IF c.kind = "random" THEN MathRandom
    ELSE {timingFunction(c.wrapped, progress)}

\* The closure after it returned result for progress.
Returned(c, progress, result) ==
    [c EXCEPT !.progress = progress, !.result = result,
              !.asked[progress] = @ + 1,
              !.returned = MapSet(@, progress, result)]

\* cached that does not store the result
cached_NeverStores(c, progress) ==
    IF progress \in DOMAIN c.cache
    THEN {Returned(c, progress, c.cache[progress])}
    ELSE {Returned([c EXCEPT !.evaluations[progress] = @ + 1], progress, result) :
             result \in wrappedResults(c, progress)}

\* cached(timingFunction)(progress): the closures the call can leave, one
\* for every result of the wrapped function
cached(c, progress) ==
    IF progress \in DOMAIN c.cache
    THEN {Returned(c, progress, c.cache[progress])}
    ELSE {Returned([c EXCEPT !.cache = MapSet(@, progress, result),
                             !.evaluations[progress] = @ + 1],
                   progress, result) :
             result \in wrappedResults(c, progress)}

\* linear(), allOrNothing() and fixed(0.25) applied to the double progress
timingFunctionDouble(name, progress) ==
    CASE name = "linear" -> progress
      [] name = "allOrNothing" ->
            IF DoubleLess(progress, DoubleOf(1, 2)) THEN DoubleOf(0, 1) ELSE DoubleOf(1, 1)
      [] name = "fixed" -> DoubleOf(1, 4)

\* The step 0.01 of the loop of getSectionDeltaInfo
SampleStep == DoubleOf(1, 100)

\* The loop of getSectionDeltaInfo runs 101 times at most (from 0.0 in steps
\* of 0.01 while progress <= 1.0); the model takes its steps in SampleRuns
\* runs of SampleRun steps.
SampleRun == 10

SampleRuns == 11

\* x > 0.0
DoublePositive(x) == ~x.neg /\ x.man # <<>>

\* The body of the for loop of getSectionDeltaInfo and progress += 0.01, on
\* the two states the timing functions returned; done says that the loop
\* has been left.
SectionBody(st, orbitorState, gravitatorState) ==
    LET deltaState == DoubleSub(orbitorState, gravitatorState)
        deltaStateAbs == DoubleAbs(deltaState)
        larger == DoubleLess(st.maxDeltaAbs, deltaStateAbs)
    IN IF \/ DoublePositive(deltaState) /\ st.maxDelta.neg
          \/ deltaState.neg /\ DoublePositive(st.maxDelta)
       THEN [st EXCEPT !.done = TRUE]
       ELSE [progress |-> DoubleAdd(st.progress, SampleStep),
             maxDelta |-> IF larger THEN deltaState ELSE st.maxDelta,
             maxDeltaAbs |-> IF larger THEN deltaStateAbs ELSE st.maxDeltaAbs,
             endProgress |-> st.progress,
             done |-> FALSE]

\* One pass of the for loop of getSectionDeltaInfo: its test and its body.
SectionStep(orbitor, gravitator, st) ==
    IF st.done THEN st
    ELSE IF DoubleLess(DoubleOf(1, 1), st.progress) THEN [st EXCEPT !.done = TRUE]
    ELSE SectionBody(st, timingFunctionDouble(orbitor, st.progress),
                     timingFunctionDouble(gravitator, st.progress))

\* n passes of the loop
RECURSIVE SectionSteps(_, _, _, _)
SectionSteps(orbitor, gravitator, st, n) ==
    IF n = 0 \/ st.done THEN st
    ELSE SectionSteps(orbitor, gravitator, SectionStep(orbitor, gravitator, st), n - 1)

\* runs runs of SampleRun passes of the loop
RECURSIVE SectionRuns(_, _, _, _)
SectionRuns(orbitor, gravitator, st, runs) ==
    IF runs = 0 \/ st.done THEN st
    ELSE SectionRuns(orbitor, gravitator,
                     SectionSteps(orbitor, gravitator, st, SampleRun), runs - 1)

getSectionDeltaInfo(orbitor, gravitator, startProgress) ==
    LET st == SectionRuns(orbitor, gravitator,
                          [progress |-> startProgress,
                           maxDelta |-> DoubleOf(0, 1),
                           maxDeltaAbs |-> DoubleOf(0, 1),
                           endProgress |-> startProgress,
                           done |-> FALSE],
                          SampleRuns)
    IN [maxDelta |-> st.maxDeltaAbs,
        startProgress |-> startProgress,
        endProgress |-> st.endProgress]

\* The function gravitate(orbitor, gravitator) returns, as it is returned:
\* the section from 0.0 is its currentSectionDeltaInfo.
NewGravitate(orbitor, gravitator) ==
    [NewClosure("gravitate", Null, "none") EXCEPT
        !.orbitor = orbitor,
        !.gravitator = gravitator,
        !.section = getSectionDeltaInfo(orbitor, gravitator, DoubleOf(0, 1))]

\* gravitate(orbitor, gravitator)(progress): the closure the call leaves
gravitate(c, progress) ==
    LET p == DoubleOf(progress, One)
        orbitorState == timingFunctionDouble(c.orbitor, p)
        gravitatorState == timingFunctionDouble(c.gravitator, p)
        currentSectionDeltaInfo ==
            IF DoubleLess(c.section.endProgress, p)
            THEN getSectionDeltaInfo(c.orbitor, c.gravitator, p)
            ELSE c.section
        deltaState == DoubleAbs(DoubleSub(orbitorState, gravitatorState))
        deltaStateRelative ==
            IF currentSectionDeltaInfo.maxDelta.man = <<>> THEN DoubleOf(0, 1)
            ELSE DoubleDiv(deltaState, currentSectionDeltaInfo.maxDelta)
    IN [c EXCEPT !.section = currentSectionDeltaInfo,
                 !.progress = progress,
                 !.pull = deltaStateRelative,
                 !.result = DoubleAdd(orbitorState,
                                      DoubleMul(DoubleSub(gravitatorState, orbitorState),
                                                deltaStateRelative))]

\* The timing function of closure c applied to progress; easeInOut
\* captures its strength alone.
apply(c, progress) ==
    IF c.kind = "easeInOut"
    THEN {[c EXCEPT !.progress = progress,
                    !.result = easeInOut(DoubleOf(c.strength, StrengthUnit),
                                         DoubleOf(progress, One))]}
    ELSE IF c.kind = "gravitate" THEN {gravitate(c, progress)}
    ELSE cached(c, progress)

\* ---------------------------------------------------------------- the instance
\* The instance, its collaborators and the observations of the operation
\* in progress, as one record threaded through the operation's statements;
\* exc says that a callback has thrown and the operation is being unwound.
\* An operation maps such a record to the set of records it can leave: one
\* for every way the clock can advance between its readings.
Self ==
    [startTime |-> startTime, pauseTime |-> pauseTime, resumeTime |-> resumeTime,
     endTime |-> endTime, cancelTime |-> cancelTime, timeProgress |-> timeProgress,
     lastHandlerCallTime |-> lastHandlerCallTime, clock |-> clock,
     scheduled |-> scheduled, promises |-> promises, invoked |-> invoked,
     lastRenderTime |-> lastRenderTime,
     queries |-> queries, updates |-> updates,
     calls |-> <<>>, exc |-> FALSE]

\* The readings of the scripted clock: 0.0, 0.5 and 1.0 seconds; once they
\* are used up the stub keeps returning the last one.
Script == <<0, Second \div 2, Second>>

\* (this.getRelativeTimeSeconds)(): every reading the monotonic clock can
\* return next, or the next reading of the script; the reading is the clock
\* field of the result.
getRelativeTimeSeconds(m) ==
    IF config.relativeTimeSeconds = "script"
    THEN LET n == IF m.queries < Len(Script) THEN m.queries + 1 ELSE Len(Script)
         IN {[m EXCEPT !.clock = Script[n], !.queries = n]}
    ELSE {[m EXCEPT !.clock = t] : t \in {u \in m.clock..(m.clock + MaxStep) : u <= MaxTime}}

\* A call of a caller-supplied callback: it is recorded, and it throws when
\* the configuration says so.
Call(m, name, args) ==
    [m EXCEPT !.calls = Append(@, <<name>> \o args),
              !.invoked = IF name \in DOMAIN @ THEN [@ EXCEPT ![name] = @ + 1] ELSE @,
              !.exc = (config.throws = name)]

hasStarted(m) == m.startTime # Null

isPaused(m) == m.pauseTime # Null

hasEnded(m) == m.endTime # Null

isCanceled(m) == m.cancelTime # Null

\* isRunning() that forgets the cancellation
isRunning_IgnoresCancel(m) ==
    /\ hasStarted(m)
    /\ ~hasEnded(m)
    /\ ~isPaused(m)

isRunning(m) ==
    /\ hasStarted(m)
    /\ ~hasEnded(m)
    /\ ~isPaused(m)
    /\ ~isCanceled(m)

\* this.minHandlerCallTimeElapsed, set by the constructor
minHandlerCallTimeElapsed ==
    IF config.maxFps # 0 THEN Second \div config.maxFps ELSE Null

\* elapsedTime / this.config.durationSeconds, on the progress grid; the
\* elapsed time of a monotonic clock is never negative, and divided by 0 it
\* gives NaN when it is 0 and Infinity otherwise.
additionalTimeProgress(elapsedTime) ==
    IF config.durationSeconds = 0
    THEN IF elapsedTime = 0 THEN NaN ELSE Infinity
    ELSE (elapsedTime * One) \div (config.durationSeconds * Second)

\* a + b of two numbers of which b may be NaN or Infinity, and a too once
\* such a b has been added to it
Plus(a, b) ==
    IF a = NaN \/ b = NaN THEN NaN
    ELSE IF a = Infinity \/ b = Infinity THEN Infinity
    ELSE a + b

\* a ?? b
Coalesce(a, b) == IF a # Null THEN a ELSE b

\* from + ((to - from) * stateProgress) of doubles
interpolateDouble(from, to, stateProgress) ==
    DoubleAdd(from, DoubleMul(DoubleSub(to, from), stateProgress))

\* from + ((to - from) * stateProgress).  For integers from and to the three
\* operations are exact and the state is computed on the progress grid; for
\* other literals it is the double that the three rounded operations give.
interpolate(from, to, stateProgress) ==
    IF stateProgress = NaN THEN NaN
    ELSE IF config.unit = 1 THEN from * One + (to - from) * stateProgress
    ELSE interpolateDouble(DoubleOf(from, config.unit), DoubleOf(to, config.unit),
                           DoubleOf(stateProgress, One))

render(m, tp) ==
    LET clamped == IF tp = NaN THEN NaN
                   ELSE IF tp > One THEN One ELSE IF tp < 0 THEN 0 ELSE tp
        stateProgress == IF config.timingFunction # "none"
                         THEN timingFunction(config.timingFunction, clamped)
                         ELSE clamped
        state == interpolate(config.from, config.to, stateProgress)
    IN Call([m EXCEPT !.lastRenderTime = m.clock,
                      !.updates = IF config.record THEN Append(@, state) ELSE @],
            "onUpdate", <<state, stateProgress, clamped>>)

\* resolve(undefined) / reject(undefined) of every awaitable whose wrapper is
\* in the chain of the callback named name; settling a settled promise
\* changes nothing.
Settle(ps, name, outcome) ==
    [i \in DOMAIN ps |->
        IF name \in ps[i].wrapped /\ ps[i].state = "pending"
        THEN [ps[i] EXCEPT !.state = outcome] ELSE ps[i]]

\* if (this.config.onEnd) this.config.onEnd(), where promise() or
\* animatePromise() has wrapped the configured onEnd: the innermost, original
\* callback runs first, then each wrapper resolves its awaitable.
invokeOnEnd(m) ==
    LET m1 == IF "onEnd" \in config.callbacks THEN Call(m, "onEnd", <<>>) ELSE m
    IN IF m1.exc THEN m1 ELSE [m1 EXCEPT !.promises = Settle(@, "onEnd", "resolved")]

invokeOnCancel(m) ==
    LET m1 == IF "onCancel" \in config.callbacks THEN Call(m, "onCancel", <<>>) ELSE m
    IN IF m1.exc THEN m1 ELSE [m1 EXCEPT !.promises = Settle(@, "onCancel", "rejected")]

\* end() that renders the progress reached instead of 1.0
finalFrame_AtCurrentProgress(m) == render(m, m.timeProgress)

\* The final frame of end(): this.render(1.0)
finalFrame(m) == render(m, One)

end(m) ==
    IF hasEnded(m) \/ isCanceled(m) THEN {m}
    ELSE LET r == finalFrame(m)
         IN IF r.exc THEN {r}
            ELSE {invokeOnEnd([t EXCEPT !.endTime = t.clock]) :
                     t \in getRelativeTimeSeconds([r EXCEPT !.timeProgress = One])}

\* A handler that does not resubmit itself
scheduleHandlerCall_Forgets(m) == m

scheduleHandlerCall(m) ==
    [m EXCEPT !.scheduled = @ + 1]

\* A throttle that lets a tick through one clock unit too early
throttled_OffByOne(c) ==
    /\ config.maxFps # 0
    /\ minHandlerCallTimeElapsed # Null
    /\ c.lastHandlerCallTime # Null
    /\ c.clock - c.lastHandlerCallTime < minHandlerCallTimeElapsed - 1

\* The "limit FPS" test of handler, at its reading c.clock of the clock
throttled(c) ==
    /\ config.maxFps # 0
    /\ minHandlerCallTimeElapsed # Null
    /\ c.lastHandlerCallTime # Null
    /\ c.clock - c.lastHandlerCallTime < minHandlerCallTimeElapsed

\* handler that measures the elapsed time from the last handler call that
\* passed the throttle
handlerAt_SinceLastCall(c, tpArg) ==
    LET currentTime == c.clock
    IN IF throttled(c)
       THEN {scheduleHandlerCall(c)}
       ELSE LET d == [c EXCEPT !.lastHandlerCallTime = currentTime]
                elapsedTime == currentTime
                               - Coalesce(c.lastHandlerCallTime,
                                          Coalesce(d.resumeTime, Coalesce(d.startTime, currentTime)))
                tp == IF tpArg = Null
                      THEN Plus(d.timeProgress, additionalTimeProgress(elapsedTime))
                      ELSE tpArg
            IN IF tp # NaN /\ tp >= One THEN end(d)
               ELSE LET r == render(d, tp)
                    IN IF r.exc THEN {r} ELSE {scheduleHandlerCall(r)}

\* handler(timeProgress) after its reading c.clock of the clock
handlerAt(c, tpArg) ==
    LET currentTime == c.clock
    IN IF throttled(c)
       THEN {scheduleHandlerCall(c)}
       ELSE LET d == [c EXCEPT !.lastHandlerCallTime = currentTime]
                elapsedTime == currentTime
                               - Coalesce(d.resumeTime, Coalesce(d.startTime, currentTime))
                tp == IF tpArg = Null
                      THEN Plus(d.timeProgress, additionalTimeProgress(elapsedTime))
                      ELSE tpArg
            IN IF tp # NaN /\ tp >= One THEN end(d)
               ELSE LET r == render(d, tp)
                    IN IF r.exc THEN {r} ELSE {scheduleHandlerCall(r)}

\* handler that does not test isRunning()
handler_AlwaysRuns(m, tpArg) ==
    IF m.exc THEN {m}
    ELSE UNION {handlerAt(c, tpArg) : c \in getRelativeTimeSeconds(m)}

handler(m, tpArg) ==
    IF m.exc \/ ~isRunning(m) THEN {m}
    ELSE UNION {handlerAt(c, tpArg) : c \in getRelativeTimeSeconds(m)}

\* start() from the call of config.onStart on
startFrom(b) ==
    IF "onStart" \in config.callbacks
    THEN LET s == Call(b, "onStart", <<>>)
         IN IF s.exc THEN {s}
            ELSE UNION {handler([t EXCEPT !.startTime = t.clock], t.timeProgress) :
                           t \in getRelativeTimeSeconds(s)}
    ELSE handler(b, b.timeProgress)

\* start() that does not test whether the instance has started
start_Restarts(m) ==
    IF isCanceled(m) THEN {m}
    ELSE UNION {startFrom([a EXCEPT !.startTime = a.clock]) :
                   a \in getRelativeTimeSeconds(m)}

start(m) ==
    IF hasStarted(m) \/ isCanceled(m) THEN {m}
    ELSE UNION {startFrom([a EXCEPT !.startTime = a.clock]) :
                   a \in getRelativeTimeSeconds(m)}

\* pause() that stores the progress of the run segment alone
pauseAt_Forgets(a) ==
    LET currentTime == a.clock
        elapsedTime == currentTime
                       - Coalesce(a.resumeTime, Coalesce(a.startTime, currentTime))
        b == [a EXCEPT !.timeProgress = additionalTimeProgress(elapsedTime),
                       !.pauseTime = currentTime,
                       !.resumeTime = Null]
    IN IF "onPause" \in config.callbacks
       THEN Call(b, "onPause", <<b.timeProgress>>) ELSE b

\* pause() after its reading a.clock of the clock
pauseAt(a) ==
    LET currentTime == a.clock
        elapsedTime == currentTime
                       - Coalesce(a.resumeTime, Coalesce(a.startTime, currentTime))
        b == [a EXCEPT !.timeProgress = Plus(@, additionalTimeProgress(elapsedTime)),
                       !.pauseTime = currentTime,
                       !.resumeTime = Null]
    IN IF "onPause" \in config.callbacks
       THEN Call(b, "onPause", <<b.timeProgress>>) ELSE b

pause(m) ==
    IF isPaused(m) \/ isCanceled(m) THEN {m}
    ELSE {pauseAt(a) : a \in getRelativeTimeSeconds(m)}

\* resume() from the call of config.onResume on
resumeFrom(b) ==
    IF "onResume" \in config.callbacks
    THEN LET s == Call(b, "onResume", <<b.timeProgress>>)
         IN IF s.exc THEN {s}
            ELSE UNION {handler([t EXCEPT !.resumeTime = t.clock], t.timeProgress) :
                           t \in getRelativeTimeSeconds(s)}
    ELSE handler(b, b.timeProgress)

\* resume() that leaves pauseTime set
resume_KeepsPause(m) ==
    IF ~isPaused(m) \/ isCanceled(m) THEN {m}
    ELSE UNION {resumeFrom([a EXCEPT !.resumeTime = a.clock]) :
                   a \in getRelativeTimeSeconds(m)}

resume(m) ==
    IF ~isPaused(m) \/ isCanceled(m) THEN {m}
    ELSE UNION {resumeFrom([a EXCEPT !.resumeTime = a.clock, !.pauseTime = Null]) :
                   a \in getRelativeTimeSeconds(m)}

cancel(m) ==
    IF isCanceled(m) THEN {m}
    ELSE {invokeOnCancel([a EXCEPT !.cancelTime = a.clock]) :
             a \in getRelativeTimeSeconds(m)}

\* promise(): the awaitable returned is appended to promises; wrapped names
\* the configured callbacks onto which its resolve/reject were chained.
promise(m) ==
    IF hasEnded(m)
    THEN [m EXCEPT !.promises = Append(@, [state |-> "resolved", wrapped |-> {}])]
    ELSE IF isCanceled(m)
    THEN [m EXCEPT !.promises = Append(@, [state |-> "rejected", wrapped |-> {}])]
    ELSE [m EXCEPT !.promises = Append(@, [state |-> "pending",
                                           wrapped |-> {"onEnd", "onCancel"}])]

\* animate(config) on the instance new Animation(config) constructed:
\* autoStart is not configured, so that the instance is started.
animate(m) == start(m)

\* animatePromise(config): the executor of the awaitable chains resolve onto
\* the configured onEnd and calls animate in a try block; what animate
\* throws is caught and rejects the awaitable, and the call returns.
animatePromise(m) ==
    LET p == [m EXCEPT !.promises = Append(@, [state |-> "pending",
                                               wrapped |-> {"onEnd"}])]
    IN {IF a.exc
        THEN [a EXCEPT !.promises[Len(a.promises)].state =
                           IF @ = "pending" THEN "rejected" ELSE @,
                       !.exc = FALSE]
        ELSE a : a \in animate(p)}

\* ---------------------------------------------------------------- actions
\* The state after an operation that left the instance as m.
\* The instance has started and is not paused: its clock time counts as
\* time it has run.
hasStartedUnpaused(m) == hasStarted(m) /\ ~isPaused(m)

Commit(m) ==
    /\ m.scheduled <= MaxScheduled
    /\ Len(m.updates) <= MaxUpdates
    /\ startTime' = m.startTime
    /\ pauseTime' = m.pauseTime
    /\ resumeTime' = m.resumeTime
    /\ endTime' = m.endTime
    /\ cancelTime' = m.cancelTime
    /\ timeProgress' = m.timeProgress
    /\ lastHandlerCallTime' = m.lastHandlerCallTime
    /\ clock' = m.clock
    /\ scheduled' = m.scheduled
    /\ promises' = m.promises
    /\ invoked' = m.invoked
    /\ lastRenderTime' = m.lastRenderTime
    /\ calls' = m.calls
    /\ thrown' = m.exc
    /\ queries' = m.queries
    /\ updates' = m.updates
    /\ runSince' = IF hasEnded(m) \/ isCanceled(m) THEN Null
                   ELSE IF ~hasStartedUnpaused(Self) /\ hasStartedUnpaused(m)
                   THEN IF ~hasStarted(Self) THEN m.startTime ELSE m.resumeTime
                   ELSE IF hasStartedUnpaused(Self) /\ ~hasStartedUnpaused(m)
                   THEN Null
                   ELSE runSince
    /\ runTime' = IF hasEnded(m) \/ isCanceled(m) THEN 0
                  ELSE IF hasStartedUnpaused(Self) /\ ~hasStartedUnpaused(m)
                  THEN runTime + (m.pauseTime - runSince)
                  ELSE runTime
    /\ UNCHANGED <<config, closure>>

Constructed(cfgs) ==
    /\ config \in cfgs
    /\ clock = 0
    /\ startTime = Null
    /\ pauseTime = Null
    /\ resumeTime = Null
    /\ endTime = Null
    /\ cancelTime = Null
    /\ timeProgress = config.progress
    /\ lastHandlerCallTime = Null
    /\ scheduled = 0
    /\ promises = <<>>
    /\ invoked = [n \in {"onStart", "onEnd", "onCancel"} |-> 0]
    /\ lastRenderTime = Null
    /\ calls = <<>>
    /\ thrown = FALSE
    /\ queries = 0
    /\ updates = <<>>
    /\ runTime = 0
    /\ runSince = Null

InitWith(cfgs) ==
    /\ Constructed(cfgs)
    /\ closure = NoClosure

Init == InitWith(Configs)

Start == \E m \in start(Self) : Commit(m)

Pause == \E m \in pause(Self) : Commit(m)

Resume == \E m \in resume(Self) : Commit(m)

End == \E m \in end(Self) : Commit(m)

Cancel == \E m \in cancel(Self) : Commit(m)

Promise ==
    /\ Len(promises) < MaxPromises
    /\ Commit(promise(Self))

\* The instance is as its constructor left it.
AsConstructed ==
    /\ ~hasStarted(Self) /\ ~isPaused(Self) /\ ~hasEnded(Self) /\ ~isCanceled(Self)
    /\ resumeTime = Null
    /\ promises = <<>>

\* animatePromise(config): the instance is constructed in the call.
AnimatePromise ==
    /\ AsConstructed
    /\ \E m \in animatePromise(Self) : Commit(m)

\* animatePromise returns the awaitable alone: the instance it constructed
\* is out of the caller's reach, with the scheduler alone to call it.
Detached == \E i \in DOMAIN promises : promises[i].wrapped = {"onEnd"}

\* The scheduler runs one submitted callback: () => this.handler()
Tick ==
    /\ scheduled > 0
    /\ \E m \in handler([Self EXCEPT !.scheduled = @ - 1], Null) : Commit(m)

\* Host time passes while no code of the instance runs.
TimePasses ==
    /\ config.relativeTimeSeconds = "host"
    /\ clock < MaxTime
    /\ clock' = clock + 1
    /\ calls' = <<>>
    /\ thrown' = FALSE
    /\ UNCHANGED <<config, startTime, pauseTime, resumeTime, endTime, cancelTime,
                   timeProgress, lastHandlerCallTime, scheduled, promises, invoked,
                   lastRenderTime, queries, updates, closure, runTime, runSince>>

\* The lifecycle operations, the scheduler and the clock.
Lifecycle ==
    \/ Start
    \/ Pause
    \/ Resume
    \/ End
    \/ Cancel
    \/ Tick
    \/ TimePasses

Next ==
    \/ Lifecycle
    \/ Promise

\* Every operation of the instance, on the configurations Configs.
Spec == Init /\ [][Next]_vars

\* The instance whose promise() is never called, on the wider set of
\* configurations LifecycleConfigs.
LifecycleInit == InitWith(LifecycleConfigs)

LifecycleSpec == LifecycleInit /\ [][Lifecycle]_vars

\* Every operation of the instance and animatePromise, configured with a
\* callback that throws.
ThrowInit == InitWith(ThrowConfigs)

ThrowNext ==
    \/ AnimatePromise
    \/ Tick
    \/ TimePasses
    \/ ~Detached /\ Start
    \/ ~Detached /\ Pause
    \/ ~Detached /\ Resume
    \/ ~Detached /\ End
    \/ ~Detached /\ Cancel
    \/ ~Detached /\ Promise

ThrowSpec == ThrowInit /\ [][ThrowNext]_vars

\* The lifecycle under a scheduler that runs every submitted callback and a
\* clock that keeps advancing (up to MaxTime).
LiveInit == InitWith(LiveConfigs)

LiveSpec ==
    LiveInit /\ [][Lifecycle]_vars /\ WF_vars(Tick) /\ WF_vars(TimePasses)

\* The scenario: start() and then the scheduler alone drive the instance.
ScenarioInit == InitWith(ScenarioConfigs)

Scenario ==
    \/ Start
    \/ Tick
    \/ TimePasses

ScenarioSpec == ScenarioInit /\ [][Scenario]_vars

\* The lifecycle on the configurations RenderConfigs.
RenderInit == InitWith(RenderConfigs)

RenderSpec == RenderInit /\ [][Lifecycle]_vars

\* The lifecycle on the configurations InstantConfigs.
InstantInit == InitWith(InstantConfigs)

InstantSpec == InstantInit /\ [][Lifecycle]_vars

\* start() and the scheduler on the configurations DecimalConfigs.
DecimalInit == InitWith(DecimalConfigs)

DecimalSpec == DecimalInit /\ [][Scenario]_vars

\* The timing functions easeInOut(strength), random() and cached(f), each
\* applied to inputs of Progresses again and again.
TimingClosures ==
    {NewClosure("easeInOut", strength, "none") : strength \in Strengths}
      \cup {NewClosure("random", Null, "none")}
      \cup {NewClosure("cached", Null, f) : f \in {"linear", "allOrNothing"}}

TimingInit ==
    /\ Constructed({DefaultConfig})
    /\ closure \in TimingClosures

Apply ==
    /\ \E progress \in Progresses :
          /\ closure.asked[progress] < MaxAsked
          /\ closure' \in apply(closure, progress)
    /\ UNCHANGED <<config, clock, startTime, pauseTime, resumeTime, endTime,
                   cancelTime, timeProgress, lastHandlerCallTime, scheduled,
                   promises, invoked, lastRenderTime, calls, thrown, queries,
                   updates, runTime, runSince>>

TimingSpec == TimingInit /\ [][Apply]_vars

\* The timing functions gravitate(orbitor, gravitator) of linear(),
\* allOrNothing() and fixed(0.25), each applied to inputs of Progresses again
\* and again, in any order.
GravitateClosures ==
    {NewGravitate(orbitor, gravitator) :
        orbitor \in {"linear", "allOrNothing", "fixed"},
        gravitator \in {"linear", "allOrNothing", "fixed"}}

GravitateInit ==
    /\ Constructed({DefaultConfig})
    /\ closure \in GravitateClosures

GravitateSpec == GravitateInit /\ [][Apply]_vars

\* ---------------------------------------------------------------- claims
\* The fields of the instance the claims speak of.
InstanceState ==
    <<timeProgress, startTime, pauseTime, resumeTime, endTime, cancelTime>>

\* The callback named name is among the calls cs.
Invoked(name, cs) == \E i \in DOMAIN cs : cs[i][1] = name

\* A call of one of the five lifecycle methods.
LifecycleCall == Start \/ Pause \/ Resume \/ End \/ Cancel

\* C1 (as claimed): once the instance has ended or been canceled, every call
\* of start(), pause(), resume(), end() or cancel() leaves timeProgress and
\* the five timestamps unchanged and invokes no callback.
C1_TerminalIsFinal ==
    [][((endTime # Null \/ cancelTime # Null) /\ LifecycleCall)
        => (InstanceState' = InstanceState /\ calls' = <<>>)]_vars

\* C2 (as claimed): at most one of ended (endTime set) and canceled
\* (cancelTime set) is true in every reachable state.
C2_EndedOrCanceledNotBoth == ~(endTime # Null /\ cancelTime # Null)

\* C3: cancel() renders no frame, and from the state cancel() leaves on no
\* step invokes onUpdate or onEnd, sets endTime or settles an awaitable as
\* resolved, whatever is called and whichever stale tick runs.
C3_NothingAfterCancel ==
    [][cancelTime' # Null
        => /\ ~Invoked("onUpdate", calls')
           /\ ~Invoked("onEnd", calls')
           /\ endTime' = endTime
           /\ invoked'.onEnd = invoked.onEnd
           /\ lastRenderTime' = lastRenderTime]_vars

\* C3's case: the instance was canceled while it was running, and the tick
\* that was submitted before the cancel has been run by the scheduler since.
C3_StaleTickRanAfterCancel ==
    /\ cancelTime # Null
    /\ startTime # Null
    /\ pauseTime = Null
    /\ endTime = Null
    /\ lastRenderTime # Null
    /\ scheduled = 0

\* C4 (as claimed): at most one handler callback submitted to the scheduler
\* is pending at any moment.
C4_OneTickInFlight == scheduled <= 1

\* end() takes effect in this step.
EndTakesEffect == endTime = Null /\ endTime' # Null

\* The calls cs end with onUpdate(state, sp, tp), followed by onEnd() when
\* an onEnd is configured.
EndsWithFinalFrame(cs, sp, tp) ==
    LET n == Len(cs)
        u == IF "onEnd" \in config.callbacks THEN n - 1 ELSE n
    IN /\ u >= 1
       /\ cs[u] = <<"onUpdate", config.from * One + (config.to - config.from) * sp, sp, tp>>
       /\ "onEnd" \in config.callbacks => cs[n] = <<"onEnd">>

\* C5 (as claimed): every end() that takes effect delivers a final onUpdate
\* whose stateProgress and timeProgress are both exactly 1.0, before onEnd,
\* whatever the timing function.
C5_FinalFrameIsOneOne ==
    [][EndTakesEffect => EndsWithFinalFrame(calls', One, One)]_vars

\* The value at 1.0 of the timing functions of the configurations.
ValueAtOne(name) ==
    CASE name = "none" -> One
      [] name = "allOrNothing" -> One
      [] name = "fixed" -> One \div 4

\* C5 (amended): every end() that takes effect, called explicitly or by a
\* tick, delivers a final onUpdate whose timeProgress is exactly 1.0 and whose
\* stateProgress is the timing function's value at 1.0 (exactly 1.0 for the
\* absent timing function and for allOrNothing), before onEnd, and pins
\* timeProgress to 1.0, whatever the clock readings.
C5_FinalFrameAtOne ==
    [][EndTakesEffect
        => /\ EndsWithFinalFrame(calls', ValueAtOne(config.timingFunction), One)
           /\ timeProgress' = One]_vars

\* C5's case: a tick ended an animation whose timing function is fixed():
\* the final frame carries stateProgress 0.25 and timeProgress 1.0, then onEnd.
C5_EndedByTickWithFixed ==
    /\ endTime # Null
    /\ config.timingFunction = "fixed"
    /\ startTime # Null
    /\ lastHandlerCallTime >= startTime + config.durationSeconds * Second
    /\ calls = <<<<"onUpdate", 2, 1, One>>, <<"onEnd">>>>

\* cancel() takes effect in this step.
CancelTakesEffect == cancelTime = Null /\ cancelTime' # Null

\* promise() returns an awaitable in this step.
PromiseReturns == Len(promises') = Len(promises) + 1

\* The number of calls of the callback named name among the calls cs.
Count(name, cs) == Cardinality({i \in DOMAIN cs : cs[i][1] = name})

\* C6 (as claimed): a pending awaitable resolves when end() takes effect and
\* rejects when cancel() takes effect, a settled awaitable never changes,
\* and promise() returns a resolved awaitable on an ended instance and a
\* rejected one on a canceled instance.
C6_AwaitableFollowsOutcome ==
    [][/\ \A i \in DOMAIN promises :
            /\ (EndTakesEffect /\ promises[i].state = "pending")
                  => promises'[i].state = "resolved"
            /\ (CancelTakesEffect /\ promises[i].state = "pending")
                  => promises'[i].state = "rejected"
            /\ promises[i].state # "pending" => promises'[i] = promises[i]
       /\ (PromiseReturns /\ endTime # Null)
             => promises'[Len(promises')].state = "resolved"
       /\ (PromiseReturns /\ cancelTime # Null)
             => promises'[Len(promises')].state = "rejected"]_vars

\* C8 (as claimed): when end() takes effect the configured onEnd runs
\* exactly once and every awaitable promise() returned before resolves; when
\* cancel() takes effect the configured onCancel runs exactly once and every
\* awaitable promise() returned before termination rejects.
C8_PromiseComposes ==
    [][/\ EndTakesEffect
             => /\ "onEnd" \in config.callbacks
                     => Count("onEnd", calls') = 1 /\ invoked'.onEnd = 1
                /\ \A i \in DOMAIN promises : promises'[i].state = "resolved"
       /\ CancelTakesEffect
             => /\ "onCancel" \in config.callbacks
                     => Count("onCancel", calls') = 1 /\ invoked'.onCancel = 1
                /\ \A i \in DOMAIN promises :
                      "onCancel" \in promises[i].wrapped
                          => promises'[i].state = "rejected"]_vars

\* C7 (as claimed): when a callback throws while an awaitable is pending
\* the awaitable rejects, and the instance is not left running with no tick
\* armed nor ended with an awaitable still pending.
C7_ThrowRejectsAwaitable ==
    [][(thrown' /\ \E i \in DOMAIN promises : promises[i].state = "pending")
        => /\ \A i \in DOMAIN promises :
                 promises[i].state = "pending" => promises'[i].state = "rejected"
           /\ isRunning(Self)' => scheduled' > 0
           /\ endTime' # Null
                 => \A i \in DOMAIN promises' : promises'[i].state # "pending"]_vars

\* Enough of the clock's range is left for a whole run and one throttle
\* interval: what happens at the end of the range says nothing about a clock
\* that keeps advancing.
HorizonLeft ==
    clock + config.durationSeconds * Second
          + (IF config.maxFps # 0 THEN Second \div config.maxFps ELSE 0) <= MaxTime

\* C9: under a scheduler that runs every submitted callback and a clock that
\* keeps advancing, a running animation does not run forever: it ends unless
\* it is paused or canceled first; the configured onEnd is never invoked twice
\* and has been invoked exactly once whenever the instance has ended.
C9_RunningLeadsToEnd ==
    /\ (isRunning(Self) /\ HorizonLeft)
          ~> (endTime # Null \/ pauseTime # Null \/ cancelTime # Null)
    /\ [](invoked.onEnd <= 1)
    /\ [](endTime # Null => invoked.onEnd = 1)

\* C9's case: a throttled animation that was paused and resumed has been
\* ended by a tick of the scheduler, and onEnd has run once.
C9_EndedByTickAfterResume ==
    /\ config.maxFps # 0
    /\ endTime # Null
    /\ cancelTime = Null
    /\ pauseTime = Null
    /\ resumeTime # Null
    /\ resumeTime > startTime
    /\ lastHandlerCallTime > resumeTime
    /\ scheduled = 0
    /\ calls = <<<<"onUpdate", 2 * One, One, One>>, <<"onEnd">>>>
    /\ invoked.onEnd = 1

\* A step that calls handler: start(), resume() or the scheduler.
HandlerCall == Start \/ Resume \/ Tick

\* C10: with maxFps set, a render by the handler is at least 1/maxFps of
\* clock time after the last render, and a tick of a running instance
\* that reads the clock less than 1/maxFps after the last render invokes no
\* callback, changes no field and leaves exactly its own resubmission with
\* the scheduler.
C10_ThrottleSpacing ==
    [][(HandlerCall /\ config.maxFps # 0 /\ lastRenderTime # Null)
        => /\ Invoked("onUpdate", calls')
                => lastRenderTime' - lastRenderTime >= Second \div config.maxFps
           /\ (Tick /\ isRunning(Self)
                    /\ clock' - lastRenderTime < Second \div config.maxFps)
                => /\ calls' = <<>>
                   /\ scheduled' = scheduled
                   /\ InstanceState' = InstanceState
                   /\ lastRenderTime' = lastRenderTime]_vars

\* C10's case: with maxFps = 1 the handler rendered at the start and, the
\* ticks in between having been throttled, again exactly one second later.
C10_SecondRenderAfterThrottle ==
    /\ config.maxFps = 1
    /\ config.durationSeconds = 2
    /\ isRunning(Self)
    /\ resumeTime = Null
    /\ Invoked("onUpdate", calls)
    /\ lastRenderTime = startTime + Second

\* s is a prefix of t.
IsPrefix(s, t) ==
    /\ Len(s) <= Len(t)
    /\ \A i \in DOMAIN s : s[i] = t[i]

\* The states of the scenario: 0, 50 and 100.
ScenarioStates == <<0, 50 * One, 100 * One>>

\* C11 (as claimed): on the clock that returns 0.0, 0.5 and 1.0 on successive
\* queries, the onUpdate calls carry the states 0, 50, 100 in that order: what
\* has been delivered is a prefix of them, all three have been delivered once
\* the three readings have been returned, and onEnd has run exactly when the
\* third has been delivered.
C11_ScenarioStatesOnScript ==
    config.relativeTimeSeconds = "script"
        => /\ IsPrefix(updates, ScenarioStates)
           /\ queries = Len(Script) => updates = ScenarioStates
           /\ (Len(updates) = 3) <=> (invoked.onEnd = 1)

\* resume() takes effect in this step, with no clock time elapsed since the
\* pause() that paused the instance nor during the call.
ResumeRightAfterPause ==
    /\ Resume
    /\ pauseTime # Null
    /\ cancelTime = Null
    /\ pauseTime = clock
    /\ clock' = clock

\* C12 (as claimed): resume() called right after pause(), no clock time
\* having elapsed, leaves timeProgress at the time-progress reached when
\* pause() was called, passes that value to onResume and renders that value.
C12_PauseResumeKeepsProgress ==
    [][ResumeRightAfterPause
        => /\ timeProgress' = timeProgress
           /\ \A i \in DOMAIN calls' :
                 /\ calls'[i][1] = "onResume" => calls'[i][2] = timeProgress
                 /\ calls'[i][1] = "onUpdate" => calls'[i][4] = timeProgress]_vars

\* The call of this step did nothing: no field changed, the clock was not
\* read, no callback ran and nothing was submitted to the scheduler.
NoOp ==
    /\ calls' = <<>>
    /\ UNCHANGED <<InstanceState, lastHandlerCallTime, clock, scheduled, invoked,
                   lastRenderTime, promises, updates>>

\* C13: on an instance that has neither ended nor been canceled, start() on
\* a started instance, pause() on a paused instance and resume() on an
\* instance that is not paused do nothing; onStart runs at most once.
C13_InvalidCallsAreNoOps ==
    /\ [][(endTime = Null /\ cancelTime = Null)
            => /\ (Start /\ startTime # Null) => NoOp
               /\ (Pause /\ pauseTime # Null) => NoOp
               /\ (Resume /\ pauseTime = Null) => NoOp]_vars
    /\ [](invoked.onStart <= 1)

\* C13's case: the instance is running, its clock has not moved since
\* start() rendered the initial frame, and the last call (a second start()
\* or a resume()) invoked no callback and left the one tick pending.
C13_SecondStartDidNothing ==
    /\ isRunning(Self)
    /\ resumeTime = Null
    /\ config.maxFps = 0
    /\ config.callbacks = OptionalCallbacks
    /\ invoked.onStart = 1
    /\ lastRenderTime = clock
    /\ lastHandlerCallTime = clock
    /\ scheduled = 1
    /\ calls = <<>>

\* The stateProgress render derives from the clamped time-progress tp.
StateProgressOf(tp) ==
    IF config.timingFunction # "none"
    THEN timingFunction(config.timingFunction, tp) ELSE tp

\* C14 (as claimed): every onUpdate call carries a timeProgress within
\* [0,1], and with it what render derives from that timeProgress: the timing
\* function's value and the state interpolated with it; for every configured
\* progress, every sequence of clock readings and lifecycle operations, and
\* hence every durationSeconds the constructor accepts.
C14_UpdateProgressInRange ==
    \A i \in DOMAIN calls :
        calls[i][1] = "onUpdate"
            => /\ calls[i][4] \in 0..One
               /\ calls[i][3] = StateProgressOf(calls[i][4])
               /\ calls[i][2] = config.from * One
                                   + (config.to - config.from) * calls[i][3]

\* C15 (as claimed): without a timing function state is
\* from + (to - from) * timeProgress, so that the onUpdate call with
\* timeProgress 0.0 carries exactly from and the one with timeProgress 1.0
\* exactly to, also for to < from.
C15_StateExactAtBothEnds ==
    \A i \in DOMAIN calls :
        (calls[i][1] = "onUpdate" /\ config.timingFunction = "none")
            => /\ calls[i][4] = 0 => calls[i][2] = DoubleOf(config.from, config.unit)
               /\ calls[i][4] = One => calls[i][2] = DoubleOf(config.to, config.unit)

\* C16 (as claimed): with durationSeconds <= 0 the animation completes at
\* once: the first handler run of the started instance, at the latest,
\* delivers the final frame and onEnd whatever the clock reads, and leaves
\* no tick with the scheduler.
C16_NonPositiveDurationCompletes ==
    [][(Tick /\ isRunning(Self) /\ config.durationSeconds <= 0)
        => /\ endTime' # Null
           /\ EndsWithFinalFrame(calls', One, One)
           /\ scheduled' = scheduled - 1]_vars

\* C19 (as claimed): the accumulated timeProgress is within [0.0, 1.0] in
\* every reachable state of an instance configured with a progress within
\* [0,1] and a positive durationSeconds.
C19_TimeProgressInUnitInterval == timeProgress \in 0..One

\* C20: timeProgress never decreases from one state to the next, except in
\* the step in which end() takes effect and pins it to 1.0.
C20_TimeProgressMonotone ==
    [][~EndTakesEffect => timeProgress' >= timeProgress]_vars

\* C20's case: the instance was paused, resumed and, later, paused again:
\* timeProgress has grown by the progress of both run segments.
C20_PausedTwice ==
    /\ config.progress = 0
    /\ config.maxFps = 0
    /\ endTime = Null
    /\ pauseTime # Null
    /\ startTime = 0
    /\ timeProgress = One \div 2 + One \div 2
    /\ pauseTime = 3
    /\ calls = <<<<"onPause", One>>>>

\* C17: a timing function returned by random() or cached(f) returns for an
\* input the value it returned for that input before, and never evaluates
\* the wrapped function twice for one input.
C17_CachedIsStable ==
    /\ [][closure.kind \in {"random", "cached"}
            => \A q \in DOMAIN closure.returned :
                  closure'.returned[q] = closure.returned[q]]_vars
    /\ [](closure.kind \in {"random", "cached"}
            => \A q \in Progresses : closure.evaluations[q] <= 1)

\* C17's case: random() has been asked twice for 0.5 and twice for
\* another input, has called Math.random() once for each and has returned
\* the stored value the second time.
C17_RandomAskedTwice ==
    /\ closure.kind = "random"
    /\ closure.progress = One \div 2
    /\ closure.asked[One \div 2] = 2
    /\ closure.evaluations[One \div 2] = 1
    /\ closure.result = closure.cache[One \div 2]
    /\ closure.asked[0] = 2
    /\ closure.evaluations[0] = 1
    /\ closure.cache[0] # closure.cache[One \div 2]

\* C18: easeInOut(strength)(0.5) is 0.5 for every strength of Strengths,
\* the default 0.5 among them, computed in double arithmetic.
C18_EaseInOutMidpoint ==
    (closure.kind = "easeInOut" /\ closure.progress = One \div 2)
        => closure.result = DoubleOf(1, 2)

\* C18's case: easeInOut(0.5) has been applied to 0.5 and has returned 0.5.
C18_DefaultStrengthAtMidpoint ==
    /\ closure.kind = "easeInOut"
    /\ closure.strength * 2 = StrengthUnit
    /\ closure.progress = One \div 2
    /\ closure.result = DoubleOf(1, 2)

\* C21: pauseTime and resumeTime are never both set, whatever the sequence
\* of start(), pause(), resume(), end() and cancel() calls.
C21_PausedXorResumed == ~(pauseTime # Null /\ resumeTime # Null)

\* C21's case: the started instance was paused, resumed, and paused again
\* later than it was resumed: the second pause() has cleared resumeTime.
C21_PausedAgainAfterResume ==
    /\ startTime # Null
    /\ pauseTime # Null
    /\ resumeTime = Null
    /\ pauseTime > startTime
    /\ timeProgress > config.progress
    /\ lastRenderTime # Null
    /\ lastRenderTime > startTime
    /\ lastRenderTime < pauseTime
    /\ config.maxFps = 0
    /\ scheduled = 2

\* C22: a tick the scheduler runs while the instance is not running (paused,
\* ended or canceled) invokes no callback, reads no clock, changes no field of
\* the instance, lastHandlerCallTime included, and submits nothing: the
\* scheduler is left with one callback less.
C22_StaleTickDoesNothing ==
    [][(Tick /\ ~isRunning(Self))
        => /\ calls' = <<>>
           /\ scheduled' = scheduled - 1
           /\ UNCHANGED <<InstanceState, lastHandlerCallTime, lastRenderTime,
                          clock, invoked, promises, updates>>]_vars

\* C22's case: a throttled instance was paused while its tick was pending,
\* the clock has advanced past the throttle interval, and the scheduler has
\* run the tick since: nothing was rendered and no tick is left.
C22_StaleTickRanWhilePaused ==
    /\ config.maxFps # 0
    /\ startTime # Null
    /\ pauseTime # Null
    /\ endTime = Null
    /\ cancelTime = Null
    /\ scheduled = 0
    /\ clock >= lastHandlerCallTime + Second \div config.maxFps
    /\ lastRenderTime # Null
    /\ lastRenderTime = lastHandlerCallTime
    /\ lastRenderTime < pauseTime

\* The timeProgress a tick of an instance without maxFps computes at the
\* clock reading now, from the fields of the instance.
Unthrottled(now) ==
    timeProgress + additionalTimeProgress(now - Coalesce(resumeTime, startTime))

\* C23: with maxFps set, a tick of a running instance that is throttled
\* changes no field, invokes no callback and leaves exactly its own
\* resubmission; one that is not throttled does at its clock reading what an
\* instance without maxFps computes there: it renders that timeProgress when
\* it is below 1.0, and ends the animation when it is not.
C23_ThrottleKeepsProgressMath ==
    [][(Tick /\ isRunning(Self) /\ config.maxFps # 0)
        => IF lastHandlerCallTime # Null
              /\ clock' - lastHandlerCallTime < Second \div config.maxFps
           THEN /\ calls' = <<>>
                /\ scheduled' = scheduled
                /\ UNCHANGED <<InstanceState, lastHandlerCallTime, lastRenderTime>>
           ELSE IF Unthrottled(lastHandlerCallTime') >= One
           THEN /\ endTime' # Null
                /\ EndsWithFinalFrame(calls', ValueAtOne(config.timingFunction), One)
           ELSE /\ endTime' = Null
                /\ Len(calls') = 1
                /\ calls'[1][1] = "onUpdate"
                /\ calls'[1][4] = Unthrottled(lastHandlerCallTime')
                /\ scheduled' = scheduled]_vars

\* C23's case: the throttled instance of two seconds was paused and resumed
\* half a second after start(), the handler call of resume() was throttled,
\* and the tick one second after start() has rendered the timeProgress 0.5:
\* 0.25 from before the pause and 0.25 since the resume.
C23_RenderedAfterThrottledResume ==
    /\ config.maxFps = 1
    /\ config.durationSeconds = 2
    /\ isRunning(Self)
    /\ timeProgress = One \div 4
    /\ resumeTime = startTime + Second \div 2
    /\ lastHandlerCallTime = startTime + Second
    /\ calls = <<<<"onUpdate", One, One \div 2, One \div 2>>>>

\* C24 (as claimed): the timeProgress a tick computes is the configured
\* progress plus the clock time during which the instance was started and
\* not paused, divided by durationSeconds: the tick renders that value when it
\* is below 1.0 and ends the animation when it is not, for every interleaving
\* of start(), pause() and resume(), those before start() included.
C24_OnlyRunningTimeCounts ==
    [][(Tick /\ isRunning(Self) /\ Invoked("onUpdate", calls'))
        => LET ran == runTime + (lastHandlerCallTime' - runSince)
               tp == config.progress + additionalTimeProgress(ran)
           IN IF endTime' # Null THEN tp >= One
              ELSE calls'[1][4] = tp]_vars

\* C25 (as claimed): with an onStart configured, every onUpdate, onPause,
\* onResume and onEnd call comes after the onStart call, in the same
\* operation or in an earlier one, also when pause(), resume() or end() is
\* called before start(); and onStart is not invoked once onEnd has been.
C25_OnStartComesFirst ==
    [][/\ ("onStart" \in config.callbacks)
            => \A i \in DOMAIN calls' :
                  calls'[i][1] \in {"onUpdate", "onPause", "onResume", "onEnd"}
                      => \/ invoked.onStart > 0
                         \/ \E j \in 1..(i - 1) : calls'[j][1] = "onStart"
       /\ (Invoked("onStart", calls') /\ "onEnd" \in config.callbacks)
            => invoked.onEnd = 0]_vars

\* C26 (as claimed): whatever was asked before, the pull factor
\* |orbitor(p) - gravitator(p)| / maxDelta that gravitate(orbitor, gravitator)
\* computes for p is within [0,1], the value it returns lies between
\* orbitor(p) and gravitator(p) inclusive, and that value is the one a newly
\* made gravitate(orbitor, gravitator) returns for p.
C26_GravitatePullWithinUnit ==
    (closure.kind = "gravitate" /\ closure.progress # Null)
        => LET p == DoubleOf(closure.progress, One)
               orbitorState == timingFunctionDouble(closure.orbitor, p)
               gravitatorState == timingFunctionDouble(closure.gravitator, p)
               new == gravitate(NewGravitate(closure.orbitor, closure.gravitator),
                                closure.progress)
           IN /\ ~closure.pull.neg
              /\ ~DoubleLess(DoubleOf(1, 1), closure.pull)
              /\ \/ /\ ~DoubleLess(closure.result, orbitorState)
                    /\ ~DoubleLess(gravitatorState, closure.result)
                 \/ /\ ~DoubleLess(closure.result, gravitatorState)
                    /\ ~DoubleLess(orbitorState, closure.result)
              /\ closure.result = new.result

TypeOK ==
    /\ config \in Configs \cup LifecycleConfigs \cup ThrowConfigs \cup LiveConfigs
                     \cup ScenarioConfigs \cup RenderConfigs \cup InstantConfigs
                     \cup DecimalConfigs
    /\ clock \in 0..MaxTime
    /\ scheduled \in 0..MaxScheduled

====
